---- MODULE Spec2Model ----
(***************************************************************************)
(* A model of three glue components of the ape framework:                  *)
(*   - ape_plugins/utils.py : PluginInstallRequest, the pip-freeze parser  *)
(*     and ModifyPluginResultHandler;                                      *)
(*   - ape/pytest/fixtures.py : PytestApeFixtures._isolation and           *)
(*     ReceiptCapture.                                                     *)
(* Python strings are sequences of one-character strings, so that split,   *)
(* startswith, "in" and fnmatch are computed the way the code computes     *)
(* them.  Optional[str] is a string or None == <<"None">>; an optional     *)
(* block number is a natural or NoBlock == -1.                             *)
(***************************************************************************)
EXTENDS Integers, Sequences, FiniteSets, TLC

VARIABLES
    \* ---- ape_plugins/utils.py
    stage,          \* where the plugins command is: "start", "requested", "handled"
    site_packages,  \* the environment pip manages: for each package, how it is installed
    raw_name,       \* the "name" given to the last PluginInstallRequest(...), None if missing
    raw_version,    \* the "version" given to it, None if not given
    plugin,         \* the outcome of that construction: [ok, name, version]
    call,           \* the last result-handler call: [op, result, before, ret, log]
    \* ---- ReceiptCapture._exclude_from_gas_report
    gas_exclusions, \* config_wrapper.gas_exclusions: sequence of [contract_name, method_name]
    query,          \* the last _exclude_from_gas_report call: [asked, contract, method, ret]
    \* ---- the chain and its provider (collaborators)
    connected,      \* provider.is_connected
    chain,          \* the blocks: chain[n + 1] is block number n, a sequence of transactions
    snapshots,      \* chain_manager._snapshots: sequence of [id, height]
    next_snapshot,  \* the next fresh snapshot id
    \* ---- ReceiptCapture
    track_gas,      \* config_wrapper.track_gas
    track_coverage, \* config_wrapper.track_coverage
    receipt_map,    \* the class attribute ReceiptCapture.receipt_map: source id -> hashes
    enter_blocks,   \* the class attribute ReceiptCapture.enter_blocks
    instances,      \* the ReceiptCapture objects constructed so far
    own,            \* own[i]: instance i has attributes of its own (set by clear())
    own_map,        \* own_map[i]: the instance attribute receipt_map of i, when own[i]
    own_blocks,     \* own_blocks[i]: the instance attribute enter_blocks of i, when own[i]
    gas_calls,      \* gas_calls[h]: how often receipt.track_gas() ran for hash h
    cov_calls,      \* cov_calls[h]: how often receipt.track_coverage() ran for hash h
    captured,       \* the hashes capture() was called with and found recordable
    recaptured,     \* those of them it was called with again ("already known")
    windows,        \* the open `with receipt_capture:` blocks, innermost last:
                    \*   [inst, recorded], recorded = what its __enter__ pushed or NoBlock
    last_exit,      \* what the __exit__ of the last step did (acted = FALSE otherwise)
    \* ---- PytestApeFixtures
    warned,         \* self._warned_for_unimplemented_snapshot
    warnings,       \* how many times the snapshot warning was logged
    track_cache,    \* the cached property _track_transactions: "unset", "yes", "no"
    scopes,         \* the running _isolation generators, innermost last
    last_snapshot,  \* what the _snapshot() of the last step did (acted = FALSE otherwise)
    unsupported_seen, \* some _snapshot() met NotImplementedError
    finished        \* the _isolation generator the last step tore down (acted = FALSE otherwise)

pluginVars == <<stage, site_packages, raw_name, raw_version, plugin, call>>
gasVars == <<gas_exclusions, query>>
chainVars == <<connected, chain, snapshots, next_snapshot>>
captureVars == <<track_gas, track_coverage, receipt_map, enter_blocks, instances, own,
                 own_map, own_blocks, gas_calls, cov_calls, captured, recaptured, windows,
                 last_exit>>
fixtureVars == <<warned, warnings, track_cache, scopes, last_snapshot, unsupported_seen, finished>>
testVars == <<chainVars, captureVars, fixtureVars>>
vars == <<pluginVars, gasVars, testVars>>

----------------------------------------------------------------------------
(* Python str operations *)

None == <<"None">>

\* Python truthiness of an Optional[str]: `not x`.
Falsy(x) == x = None \/ x = <<>>

\* s.startswith(p)
StartsWith(s, p) == Len(p) <= Len(s) /\ SubSeq(s, 1, Len(p)) = p

\* 1-based position of the first occurrence of sub in s, 0 if there is none
\* (s.index(sub) + 1, or s.find(sub) + 1).
Find(s, sub) ==
    LET idx == {i \in 1..(Len(s) - Len(sub) + 1) : SubSeq(s, i, i + Len(sub) - 1) = sub}
    IN  IF idx = {} THEN 0 ELSE CHOOSE i \in idx : \A j \in idx : i <= j

\* `sub in s`
Contains(s, sub) == Find(s, sub) # 0

\* s.split(sep)
RECURSIVE Split(_, _)
Split(s, sep) ==
    LET i == Find(s, sep)
    IN  IF i = 0 THEN <<s>>
        ELSE <<SubSeq(s, 1, i - 1)>> \o Split(SubSeq(s, i + Len(sep), Len(s)), sep)

\* sep.join(parts)
RECURSIVE Join(_, _)
Join(parts, sep) ==
    IF Len(parts) = 0 THEN <<>>
    ELSE IF Len(parts) = 1 THEN parts[1]
    ELSE parts[1] \o sep \o Join(Tail(parts), sep)

\* s.replace(old, new)
Replace(s, old, new) == Join(Split(s, old), new)

\* s.strip()
RECURSIVE Strip(_)
Strip(s) ==
    IF Len(s) = 0 THEN s
    ELSE IF s[1] = " " THEN Strip(Tail(s))
    ELSE IF s[Len(s)] = " " THEN Strip(SubSeq(s, 1, Len(s) - 1))
    ELSE s

\* s.splitlines(): the lines without their terminators, no empty last line.
SplitLines(s) ==
    LET parts == Split(s, <<"\n">>)
    IN  IF parts[Len(parts)] = <<>> THEN SubSeq(parts, 1, Len(parts) - 1) ELSE parts

Last(seq) == seq[Len(seq)]

----------------------------------------------------------------------------
(* String literals of the code and of the inputs *)

S_ape == <<"a", "p", "e", "-">>
S_dashE == <<"-", "e">>
S_dotgit == <<".", "g", "i", "t">>
S_slash == <<"/">>
S_at == <<"@">>
S_eqeq == <<"=", "=">>
S_le == <<"<", "=">>
S_ge == <<">", "=">>
S_atgit == <<"@", "g", "i", "t", "+">>
S_git == <<"g", "i", "t", "+">>
S_eq == <<"=">>
S_lt == <<"<">>
S_gt == <<">">>
S_us == <<"_">>
S_dash == <<"-">>
S_comma == <<",">>
S_trezor == <<"t", "r", "e", "z", "o", "r">>
S_ens == <<"e", "n", "s">>
S_foo == <<"f", "o", "o">>
S_v040 == <<"0", ".", "4", ".", "0">>
S_v050 == <<"0", ".", "5", ".", "0">>
S_numpy == <<"n", "u", "m", "p", "y", "=", "=", "1", ".", "0">>
S_remote == <<"g", "i", "t", "+", "h", "t", "t", "p", "s", ":", "/", "/", "x", "/">>
S_egg == <<"@", "1", "#", "e", "g", "g", "=", "a", "p", "e", "_">>
S_file == <<" ", "@", " ", "f", "i", "l", "e", ":", "/", "/", "/", "x", "/", "b", "u", "i", "l", "d">>
S_c_ge1 == <<">", "=", "1">>
S_c_lt2 == <<"<", "2">>
S_c_le2 == <<"<", "=", "2">>
S_c_eq040 == <<"=", "=", "0", ".", "4", ".", "0">>

----------------------------------------------------------------------------
(* ape_plugins/utils.py *)

\* _split_name_and_version keeping only the first of several constraints.
split_first_constraint(value) ==
    IF Contains(value, S_at)
    THEN LET parts == SelectSeq(Split(value, S_at), LAMBDA x : x # <<>>)
         IN  <<parts[1], Join(Tail(parts), S_at)>>
    ELSE LET chars == {c \in {S_eq, S_lt, S_gt} : Contains(value, c)}
         IN  IF chars = {} THEN <<value, None>>
             ELSE LET index == CHOOSE i \in {Find(value, c) : c \in chars} :
                                   \A c \in chars : i <= Find(value, c)
                  IN  <<SubSeq(value, 1, index - 1),
                        Split(SubSeq(value, index, Len(value)), S_comma)[1]>>

\* _split_name_and_version(value): (name, version)
split_name_and_version(value) ==
    IF Contains(value, S_at)
    THEN LET parts == SelectSeq(Split(value, S_at), LAMBDA x : x # <<>>)
         IN  <<parts[1], Join(Tail(parts), S_at)>>
    ELSE LET chars == {c \in {S_eq, S_lt, S_gt} : Contains(value, c)}
         IN  IF chars = {} THEN <<value, None>>
             ELSE LET index == CHOOSE i \in {Find(value, c) : c \in chars} :
                                   \A c \in chars : i <= Find(value, c)
                  IN  <<SubSeq(value, 1, index - 1), SubSeq(value, index, Len(value))>>

\* One line of `pip freeze`, as _pip_freeze_plugins rewrites it.
freeze_line(package) ==
    IF Contains(package, S_dashE)
    THEN Last(Split(Split(package, S_dotgit)[1], S_slash))
    ELSE IF Contains(package, S_at) THEN Strip(Split(package, S_at)[1])
    ELSE IF Contains(package, S_eqeq) THEN Strip(Split(package, S_eqeq)[1])
    ELSE package

\* _pip_freeze_plugins(), reading the output of the pip subprocess.
pip_freeze_plugins(output) ==
    LET lines == SelectSeq(SplitLines(output),
                     LAMBDA p : StartsWith(p, S_ape)
                                \/ (StartsWith(p, S_dashE) /\ Contains(p, S_ape)))
    IN  [k \in 1..Len(lines) |-> freeze_line(lines[k])]

\* ape.plugins.clean_plugin_name: the bare plugin name, without the package prefix.
clean_plugin_name(name) == Replace(Replace(name, S_us, S_dash), S_ape, <<>>)

\* PluginInstallRequest.validate_name (the pre root validator).  values is
\* [name, version] with name = None when the key is missing; the result is
\* [ok |-> FALSE, ...] when ValueError is raised.
ValueError == [ok |-> FALSE, name |-> None, version |-> None]

validate_name(values) ==
    IF values.name = None THEN ValueError
    ELSE LET name == values.name
             version == values.version
         IN  IF ~Falsy(version) /\ StartsWith(version, S_git)
             THEN IF ~Contains(version, S_ape \o name) THEN ValueError
                  ELSE [ok |-> TRUE, name |-> clean_plugin_name(name), version |-> version]
             ELSE IF Falsy(version)
                     /\ \E constraint \in {S_eqeq, S_le, S_ge, S_atgit} : Contains(name, constraint)
             THEN LET nv == split_name_and_version(name)
                  IN  [ok |-> TRUE, name |-> clean_plugin_name(nv[1]), version |-> nv[2]]
             ELSE [ok |-> TRUE, name |-> clean_plugin_name(name), version |-> version]

\* PluginInstallRequest.package_name
package_name(self) == S_ape \o self.name

\* PluginInstallRequest.is_installed
is_installed(self, output) ==
    LET frozen == pip_freeze_plugins(output)
        ape_packages == [k \in 1..Len(frozen) |-> split_name_and_version(frozen[k])[1]]
    IN  \E i \in 1..Len(ape_packages) : ape_packages[i] = package_name(self)

\* PluginInstallRequest.pip_freeze_version
pip_freeze_version(self, output) ==
    LET packages == pip_freeze_plugins(output)
        hits == {i \in 1..Len(packages) :
                    /\ Len(Split(packages[i], S_eqeq)) = 2
                    /\ Split(packages[i], S_eqeq)[1] = package_name(self)}
    IN  IF hits = {} THEN None
        ELSE LET first == CHOOSE i \in hits : \A j \in hits : i <= j
             IN  Last(Split(packages[first], S_eqeq))

----------------------------------------------------------------------------
(* The package manager, an external process *)

Packages == {S_trezor, S_ens}

\* How a package shows in `pip freeze`: not at all, pinned (name==version),
\* editable (-e <remote>) or as a direct reference (name @ url).
Forms == {"absent", "pin1", "pin2", "editable", "url"}

\* A git remote of the plugin `n`, as pip takes it.
Remote(n) == S_remote \o S_ape \o n \o S_dotgit

\* The line `pip freeze` prints for plugin n installed in form f.
FreezeLine(n, f) ==
    CASE f = "pin1" -> S_ape \o n \o S_eqeq \o S_v040
      [] f = "pin2" -> S_ape \o n \o S_eqeq \o S_v050
      [] f = "editable" -> S_dashE \o <<" ">> \o Remote(n) \o S_egg \o n
      [] f = "url" -> S_ape \o n \o S_file

\* subprocess.check_output([sys.executable, "-m", "pip", "freeze"]).decode()
PipFreeze(env) ==
    LET line(n) == IF env[n] = "absent" THEN <<>> ELSE FreezeLine(n, env[n]) \o <<"\n">>
    IN  S_numpy \o <<"\n">> \o line(S_trezor) \o line(S_ens)

pip_output == PipFreeze(site_packages)

----------------------------------------------------------------------------
(* ModifyPluginResultHandler: each handler gives [ret, log], log being the  *)
(* messages it sent to the logger, each <<level, message, ...>>.           *)

\* _log_errors_occurred(verb)
log_errors_occurred(verb) == <<"error", "Errors occurred when", verb>>

\* _log_modify_failed(verb)
log_modify_failed(verb) == <<"error", "Failed to", verb>>

handle_install_result(self, result, output) ==
    IF ~is_installed(self, output)
    THEN [ret |-> FALSE, log |-> <<log_modify_failed("install")>>]
    ELSE IF result # 0
    THEN [ret |-> FALSE, log |-> <<log_errors_occurred("installing")>>]
    ELSE [ret |-> TRUE,
          log |-> <<IF Falsy(pip_freeze_version(self, output))
                    THEN <<"success", "installed">>
                    ELSE <<"success", "installed with version">> >>]

handle_upgrade_result(self, result, version_before, output) ==
    IF result # 0
    THEN [ret |-> FALSE, log |-> <<log_errors_occurred("upgrading")>>]
    ELSE LET version == pip_freeze_version(self, output)
         IN  IF version_before = version \/ Falsy(version)
             THEN [ret |-> TRUE,
                   log |-> <<IF ~Falsy(self.version)
                             THEN <<"info", "already has version">>
                             ELSE <<"info", "already up to date">> >>]
             ELSE [ret |-> TRUE, log |-> << <<"success", "upgraded">> >>]

handle_uninstall_result(self, result, output) ==
    IF is_installed(self, output)
    THEN [ret |-> FALSE, log |-> <<log_modify_failed("uninstall")>>]
    ELSE IF result # 0
    THEN [ret |-> FALSE, log |-> <<log_errors_occurred("uninstalling")>>]
    ELSE [ret |-> TRUE, log |-> << <<"success", "uninstalled">> >>]

----------------------------------------------------------------------------
(* The plugin component as a state machine *)

ExitCodes == {0, 1}

NameBases == {S_trezor, S_ens, S_foo, S_ape \o S_trezor}
\* Two constraints, to be written c1,c2 after a plugin name.
Constraints == {<<S_c_ge1, S_c_lt2>>, <<S_c_le2, S_c_ge1>>}
ConstraintPairs == {c[1] \o S_comma \o c[2] : c \in Constraints}
NameSuffixes ==
    {<<>>, S_c_eq040} \cup ConstraintPairs \cup {S_at \o Remote(n) : n \in Packages}
NameInputs == {None} \cup {b \o x : b \in NameBases, x \in NameSuffixes}
VersionInputs ==
    {None, <<>>, S_v040} \cup {Remote(n) : n \in Packages}

NoCall == [op |-> "none", result |-> 0, before |-> None, ret |-> FALSE, log |-> <<>>]

InitPlugin ==
    /\ stage = "start"
    /\ site_packages = [n \in Packages |-> "absent"]
    /\ raw_name = None
    /\ raw_version = None
    /\ plugin = ValueError
    /\ call = NoCall

\* The command starts: PluginInstallRequest(name=n, version=v)
NewRequest(n, v) ==
    /\ stage = "start"
    /\ stage' = "requested"
    /\ raw_name' = n
    /\ raw_version' = v
    /\ plugin' = validate_name([name |-> n, version |-> v])
    /\ call' = NoCall
    /\ UNCHANGED <<site_packages, gasVars, testVars>>

\* pip install / upgrade / uninstall ran and left package n in form f.
PipRun(n, f) ==
    /\ stage = "requested"
    /\ site_packages[n] # f
    /\ site_packages' = [site_packages EXCEPT ![n] = f]
    /\ UNCHANGED <<stage, raw_name, raw_version, plugin, call, gasVars, testVars>>

HandleInstall(result) ==
    /\ stage = "requested"
    /\ plugin.ok
    /\ stage' = "handled"
    /\ LET r == handle_install_result(plugin, result, pip_output)
       IN  call' = [op |-> "install", result |-> result, before |-> None,
                    ret |-> r.ret, log |-> r.log]
    /\ UNCHANGED <<site_packages, raw_name, raw_version, plugin, gasVars, testVars>>

HandleUpgrade(result, version_before) ==
    /\ stage = "requested"
    /\ plugin.ok
    /\ stage' = "handled"
    /\ LET r == handle_upgrade_result(plugin, result, version_before, pip_output)
       IN  call' = [op |-> "upgrade", result |-> result, before |-> version_before,
                    ret |-> r.ret, log |-> r.log]
    /\ UNCHANGED <<site_packages, raw_name, raw_version, plugin, gasVars, testVars>>

HandleUninstall(result) ==
    /\ stage = "requested"
    /\ plugin.ok
    /\ stage' = "handled"
    /\ LET r == handle_uninstall_result(plugin, result, pip_output)
       IN  call' = [op |-> "uninstall", result |-> result, before |-> None,
                    ret |-> r.ret, log |-> r.log]
    /\ UNCHANGED <<site_packages, raw_name, raw_version, plugin, gasVars, testVars>>

\* The command ends; the next one starts from what pip left installed.
CommandEnds ==
    /\ stage # "start"
    /\ stage' = "start"
    /\ raw_name' = None
    /\ raw_version' = None
    /\ plugin' = ValueError
    /\ call' = NoCall
    /\ UNCHANGED <<site_packages, gasVars, testVars>>

NextPlugin ==
    \/ \E n \in NameInputs, v \in VersionInputs : NewRequest(n, v)
    \/ \E n \in Packages, f \in Forms : PipRun(n, f)
    \/ \E result \in ExitCodes : HandleInstall(result)
    \/ \E result \in ExitCodes, before \in {None, S_v040, S_v050} : HandleUpgrade(result, before)
    \/ \E result \in ExitCodes : HandleUninstall(result)
    \/ CommandEnds

----------------------------------------------------------------------------
(* ReceiptCapture._exclude_from_gas_report *)

\* fnmatch.fnmatch(name, pat) on a POSIX system (normcase is the identity):
\* "*" matches any run of characters, "?" any one character, any other
\* character itself.  The patterns of the model hold no "[" classes.
RECURSIVE fnmatch(_, _)
fnmatch(name, pat) ==
    IF pat = <<>> THEN name = <<>>
    ELSE IF pat[1] = "*"
    THEN fnmatch(name, Tail(pat)) \/ (name # <<>> /\ fnmatch(Tail(name), pat))
    ELSE /\ name # <<>>
         /\ pat[1] = "?" \/ pat[1] = name[1]
         /\ fnmatch(Tail(name), Tail(pat))

\* The loop of _exclude_from_gas_report over config_wrapper.gas_exclusions.
RECURSIVE exclude_from_gas_report(_, _, _)
exclude_from_gas_report(exclusions, contract_name, method_name) ==
    IF exclusions = <<>> THEN FALSE
    ELSE LET exclusion == Head(exclusions)
         IN  IF ~fnmatch(contract_name, exclusion.contract_name) \/ Falsy(method_name)
             THEN exclude_from_gas_report(Tail(exclusions), contract_name, method_name)
             ELSE IF Falsy(exclusion.method_name) \/ fnmatch(method_name, exclusion.method_name)
             THEN TRUE
             ELSE exclude_from_gas_report(Tail(exclusions), contract_name, method_name)

MaxRules == 2

ContractPatterns == {<<"*">>, <<"A", "*">>, <<"A", "B">>, <<"?">>}
MethodPatterns == {None, <<"f", "*">>, <<"g">>}
ContractNames == {<<"A">>, <<"A", "B">>, <<"B", "A">>}
MethodNames == {None, <<>>, <<"f">>, <<"f", "g">>, <<"g">>}

NoQuery == [asked |-> FALSE, contract |-> <<>>, method |-> None, ret |-> FALSE]

InitGas ==
    /\ gas_exclusions = <<>>
    /\ query = NoQuery

\* The configuration names one more exclusion rule.
AddExclusion(c, m) ==
    /\ Len(gas_exclusions) < MaxRules
    /\ gas_exclusions' = Append(gas_exclusions, [contract_name |-> c, method_name |-> m])
    /\ query' = NoQuery
    /\ UNCHANGED <<pluginVars, testVars>>

\* self._exclude_from_gas_report(contract, method)
AskExclude(contract, method) ==
    /\ query' = [asked |-> TRUE, contract |-> contract, method |-> method,
                 ret |-> exclude_from_gas_report(gas_exclusions, contract, method)]
    /\ UNCHANGED <<gas_exclusions, pluginVars, testVars>>

NextGas ==
    \/ \E c \in ContractPatterns, m \in MethodPatterns : AddExclusion(c, m)
    \/ \E c \in ContractNames, m \in MethodNames : AskExclude(c, m)

----------------------------------------------------------------------------
(* The chain, as the fixtures see it through their collaborators *)

\* `None` for an Optional[int] block number.
NoBlock == -1

MaxBlocks == 2

\* Transactions are named by their hash; "imp" was sent from an impersonated
\* account and its txn_hash cannot be read.
RecordableHashes == {"h1", "h2"}
Hashes == RecordableHashes \cup {"hErr", "hNone", "hNoAddr", "hNoType", "hNoSrc"}
BlockChoices == {<<"h1">>, <<"imp", "hNoType", "h2">>}

\* chain_manager.history[transaction_hash]
history(h) ==
    CASE h = "h1" -> [status |-> "ok", receiver |-> "0xA", contract_address |-> ""]
      [] h = "h2" -> [status |-> "ok", receiver |-> "", contract_address |-> "0xB"]
      [] h = "hNoAddr" -> [status |-> "ok", receiver |-> "", contract_address |-> ""]
      [] h = "hNoType" -> [status |-> "ok", receiver |-> "0xU", contract_address |-> ""]
      [] h = "hNoSrc" -> [status |-> "ok", receiver |-> "0xN", contract_address |-> ""]
      [] h = "hNone" -> [status |-> "falsy", receiver |-> "", contract_address |-> ""]
      [] OTHER -> [status |-> "ChainError", receiver |-> "", contract_address |-> ""]

\* chain_manager.contracts.get(address)
contracts_get(address) ==
    CASE address = "0xA" -> [known |-> TRUE, source_id |-> "A.sol"]
      [] address = "0xB" -> [known |-> TRUE, source_id |-> "B.sol"]
      [] address = "0xN" -> [known |-> TRUE, source_id |-> ""]
      [] OTHER -> [known |-> FALSE, source_id |-> ""]

\* provider.get_block("latest").number
Latest == Len(chain) - 1

\* ReceiptCapture._get_block_number under @allow_disconnected: None when the
\* provider is not connected; BlockNotFoundError when there is no latest block.
get_block_number ==
    IF ~connected THEN [raised |-> FALSE, value |-> NoBlock]
    ELSE IF Len(chain) = 0 THEN [raised |-> TRUE, value |-> NoBlock]
    ELSE [raised |-> FALSE, value |-> Latest]

----------------------------------------------------------------------------
(* ReceiptCapture.  Its methods read self.receipt_map and self.enter_blocks: *)
(* the instance attribute when clear() has set one, else the class one.      *)

MaxInstances == 2
MaxWindows == 2

Instances == 1..MaxInstances

MapOf(i) == IF own[i] THEN own_map[i] ELSE receipt_map
BlocksOf(i) == IF own[i] THEN own_blocks[i] ELSE enter_blocks

\* capture() without its "transaction already known" return.
capture_again(st, transaction_hash) ==
    LET receipt == history(transaction_hash)
        contract_address == IF receipt.receiver # "" THEN receipt.receiver
                            ELSE receipt.contract_address
        contract_type == contracts_get(contract_address)
        source_id == contract_type.source_id
    IN  IF receipt.status # "ok" \/ contract_address = "" \/ ~contract_type.known
           \/ source_id = ""
        THEN st
        ELSE LET map1 == IF source_id \notin DOMAIN st.map
                         THEN (source_id :> {}) @@ st.map ELSE st.map
             IN  [map |-> [map1 EXCEPT ![source_id] = @ \cup {transaction_hash}],
                  gas |-> IF track_gas
                          THEN [st.gas EXCEPT ![transaction_hash] = @ + 1] ELSE st.gas,
                  cov |-> IF track_coverage
                          THEN [st.cov EXCEPT ![transaction_hash] = @ + 1] ELSE st.cov,
                  seen |-> st.seen \cup {transaction_hash},
                  again |-> IF transaction_hash \in st.seen
                            THEN st.again \cup {transaction_hash} ELSE st.again]

\* ReceiptCapture.capture(transaction_hash), on st = [map, gas, cov, seen, again]:
\* the receipt map self resolves to, the tracking calls made, the hashes found
\* recordable and those of them found already known.
capture(st, transaction_hash) ==
    LET receipt == history(transaction_hash)
        contract_address == IF receipt.receiver # "" THEN receipt.receiver
                            ELSE receipt.contract_address
        contract_type == contracts_get(contract_address)
        source_id == contract_type.source_id
    IN  IF receipt.status = "ChainError" THEN st
        ELSE IF receipt.status = "falsy" THEN st
        ELSE IF contract_address = "" THEN st
        ELSE IF ~contract_type.known THEN st
        ELSE IF source_id = "" THEN st
        ELSE LET map1 == IF source_id \notin DOMAIN st.map
                         THEN (source_id :> {}) @@ st.map ELSE st.map
                 seen1 == st.seen \cup {transaction_hash}
             IN  IF transaction_hash \in map1[source_id]
                 THEN [st EXCEPT !.map = map1, !.seen = seen1,
                                 !.again = @ \cup {transaction_hash}]
                 ELSE [map |-> [map1 EXCEPT ![source_id] = @ \cup {transaction_hash}],
                       gas |-> IF track_gas
                               THEN [st.gas EXCEPT ![transaction_hash] = @ + 1] ELSE st.gas,
                       cov |-> IF track_coverage
                               THEN [st.cov EXCEPT ![transaction_hash] = @ + 1] ELSE st.cov,
                       seen |-> seen1,
                       again |-> IF transaction_hash \in st.seen
                                 THEN st.again \cup {transaction_hash} ELSE st.again]

\* The loop of capture_range over the transactions of the blocks.
RECURSIVE capture_all(_, _)
capture_all(st, transactions) ==
    IF transactions = <<>> THEN st
    ELSE LET txn == Head(transactions)
         IN  IF txn = "imp" THEN capture_all(st, Tail(transactions))
             ELSE capture_all(capture(st, txn), Tail(transactions))

\* [t for b in blocks for t in b.transactions]
RECURSIVE Flatten(_)
Flatten(blocks) == IF blocks = <<>> THEN <<>> ELSE Head(blocks) \o Flatten(Tail(blocks))

\* ReceiptCapture.capture_range(start_block, stop_block)
capture_range(st, start_block, stop_block) ==
    capture_all(st, Flatten(SubSeq(chain, start_block + 1, stop_block + 1)))

\* __exit__ returning unless the chain has advanced (>= for >).
exit_only_advanced(blocks, st) ==
    IF blocks = <<>>
    THEN [raised |-> FALSE, popped |-> NoBlock, blocks |-> blocks, scan |-> <<>>, st |-> st]
    ELSE LET start_block == Last(blocks)
             rest == SubSeq(blocks, 1, Len(blocks) - 1)
             stop == get_block_number
         IN  IF stop.raised
             THEN [raised |-> TRUE, popped |-> start_block, blocks |-> rest,
                   scan |-> <<>>, st |-> st]
             ELSE IF stop.value = NoBlock \/ start_block >= stop.value
             THEN [raised |-> FALSE, popped |-> start_block, blocks |-> rest,
                   scan |-> <<>>, st |-> st]
             ELSE [raised |-> FALSE, popped |-> start_block, blocks |-> rest,
                   scan |-> <<start_block, stop.value>>,
                   st |-> capture_range(st, start_block, stop.value)]

\* ReceiptCapture.__exit__: [raised, popped, blocks, scan, st]: whether
\* BlockNotFoundError left it, the block popped (NoBlock if none), the stack
\* it leaves, the range given to capture_range (<<>> if not called), and st.
exit(blocks, st) ==
    IF blocks = <<>>
    THEN [raised |-> FALSE, popped |-> NoBlock, blocks |-> blocks, scan |-> <<>>, st |-> st]
    ELSE LET start_block == Last(blocks)
             rest == SubSeq(blocks, 1, Len(blocks) - 1)
             stop == get_block_number
         IN  IF stop.raised
             THEN [raised |-> TRUE, popped |-> start_block, blocks |-> rest,
                   scan |-> <<>>, st |-> st]
             ELSE IF stop.value = NoBlock \/ start_block > stop.value
             THEN [raised |-> FALSE, popped |-> start_block, blocks |-> rest,
                   scan |-> <<>>, st |-> st]
             ELSE [raised |-> FALSE, popped |-> start_block, blocks |-> rest,
                   scan |-> <<start_block, stop.value>>,
                   st |-> capture_range(st, start_block, stop.value)]

NoExit == [acted |-> FALSE, raised |-> FALSE, stack |-> <<>>, recorded |-> NoBlock,
           connected |-> FALSE, latest |-> NoBlock, popped |-> NoBlock, scan |-> <<>>]

StateOf(i) == [map |-> MapOf(i), gas |-> gas_calls, cov |-> cov_calls, seen |-> captured,
               again |-> recaptured]

\* Store what a method of instance i left in the attributes it resolved.
StoreState(i, st) ==
    /\ IF own[i]
       THEN own_map' = [own_map EXCEPT ![i] = st.map] /\ UNCHANGED receipt_map
       ELSE receipt_map' = st.map /\ UNCHANGED own_map
    /\ gas_calls' = st.gas
    /\ cov_calls' = st.cov
    /\ captured' = st.seen
    /\ recaptured' = st.again

StoreBlocks(i, blocks) ==
    IF own[i]
    THEN own_blocks' = [own_blocks EXCEPT ![i] = blocks] /\ UNCHANGED enter_blocks
    ELSE enter_blocks' = blocks /\ UNCHANGED own_blocks

\* `with capture:` is entered: ReceiptCapture.__enter__ of instance i.
DoEnter(i) ==
    LET block_number == get_block_number
    IN  /\ ~block_number.raised
        /\ StoreBlocks(i, IF block_number.value # NoBlock
                          THEN Append(BlocksOf(i), block_number.value) ELSE BlocksOf(i))
        /\ windows' = Append(windows, [inst |-> i, recorded |-> block_number.value])

\* The innermost `with capture:` is left: ReceiptCapture.__exit__ of its instance.
DoExit ==
    LET w == Last(windows)
        r == exit(BlocksOf(w.inst), StateOf(w.inst))
    IN  /\ StoreBlocks(w.inst, r.blocks)
        /\ StoreState(w.inst, r.st)
        /\ windows' = SubSeq(windows, 1, Len(windows) - 1)
        /\ last_exit' = [acted |-> TRUE, raised |-> r.raised, stack |-> BlocksOf(w.inst),
                         recorded |-> w.recorded, connected |-> connected,
                         latest |-> Latest, popped |-> r.popped, scan |-> r.scan]

----------------------------------------------------------------------------
(* ReceiptCapture and the chain as a state machine *)

InitTest(tg, tc) ==
    /\ connected = TRUE
    /\ chain = << <<>> >>
    /\ snapshots = <<>>
    /\ next_snapshot = 0
    /\ track_gas = tg
    /\ track_coverage = tc
    /\ receipt_map = <<>>
    /\ enter_blocks = <<>>
    /\ instances = {1}
    /\ own = [i \in Instances |-> FALSE]
    /\ own_map = [i \in Instances |-> <<>>]
    /\ own_blocks = [i \in Instances |-> <<>>]
    /\ gas_calls = [h \in Hashes |-> 0]
    /\ cov_calls = [h \in Hashes |-> 0]
    /\ captured = {}
    /\ recaptured = {}
    /\ windows = <<>>
    /\ last_exit = NoExit

\* What every step but an __exit__ leaves of the ReceiptCapture attributes.
SameBlocks == UNCHANGED <<enter_blocks, own_blocks>>
SameMaps == UNCHANGED <<receipt_map, own_map, gas_calls, cov_calls, captured, recaptured>>
SameConfig == UNCHANGED <<track_gas, track_coverage, instances, own>>

\* A test enters `with capture:` for ReceiptCapture instance i.
Enter(i) ==
    /\ i \in instances
    /\ Len(windows) < MaxWindows
    /\ DoEnter(i)
    /\ last_exit' = NoExit
    /\ SameMaps /\ SameConfig
    /\ UNCHANGED <<pluginVars, gasVars, chainVars, fixtureVars>>

\* The innermost `with capture:` block ends.
Exit ==
    /\ windows # <<>>
    /\ DoExit
    /\ SameConfig
    /\ UNCHANGED <<pluginVars, gasVars, chainVars, fixtureVars>>

\* capture.capture(h), called directly.
Capture(i, h) ==
    /\ i \in instances
    /\ StoreState(i, capture(StateOf(i), h))
    /\ last_exit' = NoExit
    /\ SameBlocks /\ SameConfig
    /\ UNCHANGED <<windows, pluginVars, gasVars, chainVars, fixtureVars>>

\* capture.capture_range(a, b), called directly on blocks the chain has.
CaptureRange(i, a, b) ==
    /\ i \in instances
    /\ connected
    /\ a <= b /\ b <= Latest
    /\ StoreState(i, capture_range(StateOf(i), a, b))
    /\ last_exit' = NoExit
    /\ SameBlocks /\ SameConfig
    /\ UNCHANGED <<windows, pluginVars, gasVars, chainVars, fixtureVars>>

\* capture.clear(): both assignments make attributes of the instance.
Clear(i) ==
    /\ i \in instances
    /\ own' = [own EXCEPT ![i] = TRUE]
    /\ own_map' = [own_map EXCEPT ![i] = <<>>]
    /\ own_blocks' = [own_blocks EXCEPT ![i] = <<>>]
    /\ last_exit' = NoExit
    /\ UNCHANGED <<receipt_map, enter_blocks, gas_calls, cov_calls, captured, recaptured,
                   windows, track_gas, track_coverage, instances>>
    /\ UNCHANGED <<pluginVars, gasVars, chainVars, fixtureVars>>

\* ReceiptCapture(config_wrapper): another instance, as a later test session makes.
NewReceiptCapture ==
    /\ \E i \in Instances \ instances :
          /\ \A j \in Instances \ instances : i <= j
          /\ instances' = instances \cup {i}
    /\ last_exit' = NoExit
    /\ SameBlocks /\ SameMaps
    /\ UNCHANGED <<track_gas, track_coverage, own, windows>>
    /\ UNCHANGED <<pluginVars, gasVars, chainVars, fixtureVars>>

\* The provider mines a block holding the transactions txs.
Mine(txs) ==
    /\ connected
    /\ Len(chain) < MaxBlocks
    /\ chain' = Append(chain, txs)
    /\ last_exit' = NoExit
    /\ SameBlocks /\ SameMaps /\ SameConfig
    /\ UNCHANGED <<connected, snapshots, next_snapshot, windows>>
    /\ UNCHANGED <<pluginVars, gasVars, fixtureVars>>

\* The provider goes back to n blocks (a revert, or a fresh node when n = 0).
Revert(n) ==
    /\ connected
    /\ n < Len(chain)
    /\ chain' = SubSeq(chain, 1, n)
    /\ last_exit' = NoExit
    /\ SameBlocks /\ SameMaps /\ SameConfig
    /\ UNCHANGED <<connected, snapshots, next_snapshot, windows>>
    /\ UNCHANGED <<pluginVars, gasVars, fixtureVars>>

\* The provider connects or disconnects.
Reconnect ==
    /\ connected' = ~connected
    /\ last_exit' = NoExit
    /\ SameBlocks /\ SameMaps /\ SameConfig
    /\ UNCHANGED <<chain, snapshots, next_snapshot, windows>>
    /\ UNCHANGED <<pluginVars, gasVars, fixtureVars>>

----------------------------------------------------------------------------
(* PytestApeFixtures: _snapshot, _restore and the _isolation generator *)

\* `None` for an Optional[SnapshotID].
NoSnapshot == -1

MaxScopes == 2
MaxSnapshots == 2

\* chain_manager.snapshot() with a provider that supports snapshots or not:
\* "id", or what it raises.
chain_snapshot(supported) ==
    IF ~connected THEN "ProviderNotConnectedError"
    ELSE IF ~supported THEN "NotImplementedError"
    ELSE IF Len(chain) = 0 THEN "BlockNotFoundError"
    ELSE "id"

\* _snapshot that logs the warning and leaves the flag as it was.
snapshot_flag_unset(supported) ==
    LET outcome == chain_snapshot(supported)
    IN  IF outcome = "id"
        THEN [outcome |-> outcome, id |-> next_snapshot, logged |-> FALSE, warned |-> warned]
        ELSE IF outcome = "NotImplementedError"
        THEN [outcome |-> outcome, id |-> NoSnapshot, logged |-> ~warned, warned |-> warned]
        ELSE [outcome |-> outcome, id |-> NoSnapshot, logged |-> FALSE, warned |-> warned]

\* PytestApeFixtures._snapshot under @allow_disconnected, and the except
\* clause of _isolation around it: [outcome, id, logged, warned].
snapshot(supported) ==
    LET outcome == chain_snapshot(supported)
    IN  IF outcome = "id"
        THEN [outcome |-> outcome, id |-> next_snapshot, logged |-> FALSE, warned |-> warned]
        ELSE IF outcome = "NotImplementedError"
        THEN [outcome |-> outcome, id |-> NoSnapshot, logged |-> ~warned, warned |-> TRUE]
        ELSE [outcome |-> outcome, id |-> NoSnapshot, logged |-> FALSE, warned |-> warned]

\* PytestApeFixtures._track_transactions, a cached property.
track_transactions ==
    IF track_cache = "unset" THEN connected /\ (track_gas \/ track_coverage)
    ELSE track_cache = "yes"

\* Where snapshot id sits in chain_manager._snapshots, 0 if it does not.
SnapshotIndex(id) ==
    IF \E k \in 1..Len(snapshots) : snapshots[k].id = id
    THEN CHOOSE k \in 1..Len(snapshots) : snapshots[k].id = id
    ELSE 0

\* chain_manager.restore(snapshot_id), for an id it knows.
ChainRestore(id) ==
    LET k == SnapshotIndex(id)
        height == IF snapshots[k].height < Len(chain) THEN snapshots[k].height ELSE Len(chain)
    IN  /\ chain' = SubSeq(chain, 1, height)
        /\ snapshots' = SubSeq(snapshots, 1, k - 1)

\* PytestApeFixtures._restore under @allow_disconnected: the calls of
\* chain_manager.restore it makes.
restore(snapshot_id) ==
    IF SnapshotIndex(snapshot_id) = 0 THEN <<>> ELSE <<snapshot_id>>

NoSnapshotCall == [acted |-> FALSE, outcome |-> "", id |-> NoSnapshot,
                   logged |-> FALSE, warned_before |-> FALSE]
NoFinished == [acted |-> FALSE, outcome |-> "", id |-> NoSnapshot, known |-> FALSE,
               yields |-> 0, restores |-> <<>>]

InitFixtures ==
    /\ warned = FALSE
    /\ warnings = 0
    /\ track_cache = "unset"
    /\ scopes = <<>>
    /\ last_snapshot = NoSnapshotCall
    /\ unsupported_seen = FALSE
    /\ finished = NoFinished

\* pytest sets up an isolation fixture: _isolation runs to its first yield.
\* The frame keeps where the generator stands and its snapshot_id.
ScopeSetup(supported) ==
    LET snap == snapshot(supported)
        track == track_transactions
        entered == track /\ ~get_block_number.raised
        at == IF ~track THEN "yield_plain"
              ELSE IF entered THEN "yield_with" ELSE "yield_except"
    IN  /\ Len(scopes) < MaxScopes
        /\ next_snapshot < MaxSnapshots
        /\ warned' = snap.warned
        /\ warnings' = IF snap.logged THEN warnings + 1 ELSE warnings
        /\ unsupported_seen' = (unsupported_seen \/ snap.outcome = "NotImplementedError")
        /\ last_snapshot' = [acted |-> TRUE, outcome |-> snap.outcome, id |-> snap.id,
                             logged |-> snap.logged, warned_before |-> warned]
        /\ IF snap.outcome = "id"
           THEN /\ snapshots' = Append(snapshots, [id |-> snap.id, height |-> Len(chain)])
                /\ next_snapshot' = next_snapshot + 1
           ELSE UNCHANGED <<snapshots, next_snapshot>>
        /\ track_cache' = IF track THEN "yes" ELSE "no"
        /\ IF entered THEN DoEnter(1) ELSE UNCHANGED <<enter_blocks, own_blocks, windows>>
        /\ scopes' = Append(scopes, [at |-> at, snapshot_id |-> snap.id,
                                     outcome |-> snap.outcome])
        /\ finished' = NoFinished
        /\ last_exit' = NoExit
        /\ SameMaps /\ SameConfig
        /\ UNCHANGED <<connected, chain, pluginVars, gasVars>>

\* pytest tears the innermost isolation fixture down: _isolation is resumed
\* and must run to its end.  A second yield is an error of the fixture, and
\* the generator is dropped where it stands.
ScopeTeardown ==
    /\ scopes # <<>>
    /\ LET f == Last(scopes)
           leaves == f.at = "yield_with"
           again == leaves /\ exit(BlocksOf(1), StateOf(1)).raised
           calls == IF again \/ f.snapshot_id = NoSnapshot THEN <<>>
                    ELSE restore(f.snapshot_id)
       IN  /\ IF leaves THEN DoExit
              ELSE /\ last_exit' = NoExit
                   /\ SameBlocks /\ SameMaps /\ UNCHANGED windows
           /\ IF calls # <<>> /\ connected
              THEN ChainRestore(f.snapshot_id)
              ELSE UNCHANGED <<chain, snapshots>>
           /\ finished' = [acted |-> TRUE, outcome |-> f.outcome, id |-> f.snapshot_id,
                           known |-> SnapshotIndex(f.snapshot_id) # 0,
                           yields |-> IF again THEN 2 ELSE 1, restores |-> calls]
    /\ scopes' = SubSeq(scopes, 1, Len(scopes) - 1)
    /\ last_snapshot' = NoSnapshotCall
    /\ SameConfig
    /\ UNCHANGED <<connected, next_snapshot, warned, warnings, track_cache, unsupported_seen>>
    /\ UNCHANGED <<pluginVars, gasVars>>

\* A test calls chain.restore(id) itself.
UserRestore(id) ==
    /\ connected
    /\ scopes # <<>>
    /\ SnapshotIndex(id) # 0
    /\ ChainRestore(id)
    /\ last_exit' = NoExit
    /\ SameBlocks /\ SameMaps /\ SameConfig
    /\ UNCHANGED <<connected, next_snapshot, windows, fixtureVars, pluginVars, gasVars>>

----------------------------------------------------------------------------
(* Specifications *)

Init == InitPlugin /\ InitGas /\ InitTest(FALSE, FALSE) /\ InitFixtures

InitCapture ==
    /\ InitPlugin /\ InitGas /\ InitFixtures
    /\ \E tg \in BOOLEAN, tc \in BOOLEAN : InitTest(tg, tc)

InitIsolation ==
    /\ InitPlugin /\ InitGas /\ InitFixtures
    /\ \E tg \in BOOLEAN : InitTest(tg, FALSE)

\* The plugin-install component.
SpecPlugin == Init /\ [][NextPlugin]_vars

\* The gas-report exclusion filter.
SpecGas == Init /\ [][NextGas]_vars

\* Capture windows and direct captures of the ReceiptCapture objects that
\* share the class attributes.
NextCapture ==
    \/ \E i \in Instances : Enter(i)
    \/ Exit
    \/ \E i \in Instances, h \in Hashes : Capture(i, h)
    \/ \E i \in Instances, a \in 0..MaxBlocks, b \in 0..MaxBlocks : CaptureRange(i, a, b)
    \/ \E txs \in BlockChoices : Mine(txs)
    \/ \E n \in 0..MaxBlocks : Revert(n)
    \/ Reconnect

SpecCapture == InitCapture /\ [][NextCapture]_vars

\* The same with clear() and later-made ReceiptCapture objects.
NextClear ==
    \/ \E i \in Instances : Enter(i)
    \/ Exit
    \/ \E i \in Instances, h \in {"h1"} : Capture(i, h)
    \/ \E i \in Instances : Clear(i)
    \/ NewReceiptCapture
    \/ \E txs \in {<<"h1">>} : Mine(txs)

SpecClear == Init /\ [][NextClear]_vars

\* The isolation fixtures around the tests of a session.
NextIsolation ==
    \/ \E supported \in BOOLEAN : ScopeSetup(supported)
    \/ ScopeTeardown
    \/ \E id \in 0..MaxSnapshots : UserRestore(id)
    \/ \E txs \in {<<>>} : Mine(txs)
    \/ \E n \in {0} : Revert(n)
    \/ Reconnect

SpecIsolation == InitIsolation /\ [][NextIsolation]_vars

----------------------------------------------------------------------------
(* Properties *)

\* C1: _exclude_from_gas_report(contract, method) returns true if and only if
\* some rule's contract glob matches the contract name and (the method is
\* absent, or the rule's method glob is absent, or it matches the method name).
C1_ExcludeIffSomeRuleMatches ==
    query.asked =>
        (query.ret <=>
            \E k \in 1..Len(gas_exclusions) :
                /\ fnmatch(query.contract, gas_exclusions[k].contract_name)
                /\ \/ Falsy(query.method)
                   \/ Falsy(gas_exclusions[k].method_name)
                   \/ fnmatch(query.method, gas_exclusions[k].method_name))

\* The versions the listing pins the requested plugin to: the v of its lines
\* ape-<name>==<v>.
PinnedVersions ==
    {v \in {S_v040, S_v050} :
        \E k \in 1..Len(SplitLines(pip_output)) :
            SplitLines(pip_output)[k] = package_name(plugin) \o S_eqeq \o v}

\* C2: whenever `pip freeze` prints a line ape-<name>==<version>,
\* pip_freeze_version of the request named <name> is <version>; it is None
\* only when there is no such line.
C2_PipFreezeVersionIsListed ==
    (stage # "start" /\ plugin.ok) =>
        /\ \A v \in PinnedVersions : pip_freeze_version(plugin, pip_output) = v
        /\ pip_freeze_version(plugin, pip_output) = None => PinnedVersions = {}

\* Hashes the receipt map holds under some source id, counted per hash.
Entries(h) == Cardinality({src \in DOMAIN receipt_map : h \in receipt_map[src]})

\* C3: without clear(), after any captures and capture ranges the receipt map
\* holds exactly one entry for each hash captured (none for any other), and
\* track_gas / track_coverage ran once for it when configured, never twice.
C3_CaptureIdempotent ==
    \A h \in Hashes :
        /\ Entries(h) = IF h \in captured THEN 1 ELSE 0
        /\ gas_calls[h] = IF track_gas /\ h \in captured THEN 1 ELSE 0
        /\ cov_calls[h] = IF track_coverage /\ h \in captured THEN 1 ELSE 0

\* C3 witness: a hash was captured again, by a window whose range overlaps
\* an earlier one, with tracking on.
C3_Witness ==
    /\ last_exit.acted /\ last_exit.scan # <<>>
    /\ "h1" \in recaptured
    /\ track_gas /\ gas_calls["h1"] = 1

\* C4: clear() leaves the receipt map and the enter-block stack empty,
\* read through the cleared object or through the class, as an object made
\* later reads them.
C4_ClearEmptiesProcessWideState ==
    [][\A i \in Instances :
          Clear(i) => /\ own_map'[i] = <<>> /\ own_blocks'[i] = <<>>
                      /\ receipt_map' = <<>> /\ enter_blocks' = <<>>]_vars

\* C5 as claimed: __exit__ scans iff its own __enter__ recorded a block and
\* the latest block is greater than it, and then from that block to the latest.
C5_ScanIffAdvanced ==
    last_exit.acted =>
        /\ last_exit.scan # <<>> <=>
              /\ last_exit.recorded # NoBlock
              /\ last_exit.connected
              /\ last_exit.latest > last_exit.recorded
        /\ last_exit.scan # <<>> => last_exit.scan = <<last_exit.recorded, last_exit.latest>>

\* C5 amended: __exit__ scans iff the enter-block stack holds a block, the
\* provider is connected and the latest block is not less than the block it
\* pops, and then from the popped block to the latest; also when they are equal.
C5_ScanIffNotBehind ==
    last_exit.acted =>
        /\ last_exit.scan # <<>> <=>
              /\ last_exit.stack # <<>>
              /\ last_exit.connected
              /\ last_exit.latest >= Last(last_exit.stack)
        /\ last_exit.scan # <<>> => last_exit.scan = <<Last(last_exit.stack), last_exit.latest>>
        /\ ~last_exit.connected => last_exit.scan = <<>>

\* C5 witness: a window left at the block it was entered at scans that block.
C5_Witness ==
    /\ last_exit.acted
    /\ last_exit.recorded # NoBlock
    /\ last_exit.latest = last_exit.recorded
    /\ last_exit.scan = <<last_exit.recorded, last_exit.recorded>>

\* C6: every isolation scope yields to its body exactly once and afterwards
\* calls restore exactly once, with its own snapshot id, if the snapshot gave
\* an id the chain manager still knows, and never if the snapshot failed.
C6_SnapshotRunRestore ==
    finished.acted =>
        /\ finished.yields = 1
        /\ (finished.outcome = "id" /\ finished.known) => finished.restores = <<finished.id>>
        /\ finished.outcome # "id" => finished.restores = <<>>

\* The listing shows the requested plugin.
Listed == \E n \in Packages : n = plugin.name /\ site_packages[n] # "absent"

\* The version the listing pins the requested plugin to, None if it pins none.
ListedVersion ==
    IF \E n \in Packages : n = plugin.name /\ site_packages[n] = "pin1" THEN S_v040
    ELSE IF \E n \in Packages : n = plugin.name /\ site_packages[n] = "pin2" THEN S_v050
    ELSE None

\* C7: a handler returns False with exactly one error message whenever the
\* exit code is not 0 or the listing contradicts the end state (install:
\* absent; uninstall: present), and returns True, with no error message, only
\* when the exit code is 0 and the end state matches (install: present;
\* uninstall: absent; upgrade: a new version shown, or nothing to change).
C7_HandlersClassify ==
    call.op # "none" =>
        LET contradicts == \/ call.op = "install" /\ ~Listed
                           \/ call.op = "uninstall" /\ Listed
            matches == CASE call.op = "install" -> Listed
                         [] call.op = "uninstall" -> ~Listed
                         [] OTHER -> \/ ListedVersion # None /\ ListedVersion # call.before
                                     \/ ListedVersion = call.before \/ ListedVersion = None
        IN  /\ (call.result # 0 \/ contradicts) =>
                  /\ call.ret = FALSE
                  /\ Len(call.log) = 1 /\ call.log[1][1] = "error"
            /\ call.ret = TRUE =>
                  /\ call.result = 0 /\ matches
                  /\ \A k \in 1..Len(call.log) : call.log[k][1] # "error"

\* C8: no request is constructed whose version is a git remote that does not
\* name the plugin.
C8_GitRemoteNamesPlugin ==
    (stage # "start" /\ plugin.ok) =>
        ~(StartsWith(plugin.version, S_git) /\ ~Contains(plugin.version, S_ape \o plugin.name))

\* The request was made from base name b followed by the constraints c1,c2
\* and no version.
TwoConstraints(b, c) ==
    /\ stage # "start"
    /\ raw_name = b \o c[1] \o S_comma \o c[2]
    /\ Falsy(raw_version)

C11_LifoLedger ==
    last_exit.acted =>
        /\ last_exit.popped = last_exit.recorded
        /\ last_exit.scan # <<>> => last_exit.scan[1] = last_exit.recorded
        /\ last_exit.recorded = NoBlock => last_exit.scan = <<>>
        /\ windows = <<>> => enter_blocks = <<>>

====
